---- MODULE Spec2Model ----
(***************************************************************************)
(* Model of falkon/ooc_ops/ooc_potrf.py: gpu_cholesky, can_do_ic,          *)
(* _ic_cholesky and _parallel_potrf_runner.                                *)
(*                                                                         *)
(* One call of gpu_cholesky is one behaviour.  Init fixes the arguments    *)
(* (matrix, upper, clean, overwrite, opt) and the device inventory; every  *)
(* action is one stretch of the function body, in source order.            *)
(*                                                                         *)
(* Arithmetic.  The source works with Python floats; the model works with  *)
(* the exact rationals those floats stand for.  Memory is counted in       *)
(* bytes.  0.95 = 19/20 and 0.85 = 17/20, so actual_free_mem is kept as a  *)
(* numerator over 20 (the variable holds 20 * actual_free_mem).            *)
(* floor(sqrt(y)) for a real y >= 0 equals the integer square root of      *)
(* floor(y), and N is an integer, so                                       *)
(*   floor((sqrt(4*N^2 + 4*a) - 2*N) / 2) = ISqrt(N^2 + floor(a)) - N.     *)
(* math.sqrt raises ValueError on a negative argument.                     *)
(*                                                                         *)
(* The matrix is abstracted to what each strict triangle of a buffer       *)
(* holds ("data", "factor", "zero", "undef"), in the orientation of the    *)
(* buffer the caller handed in, plus a view flag A.T telling whether the   *)
(* local name A currently denotes the transpose of that buffer.            *)
(***************************************************************************)
EXTENDS Integers, Naturals, Sequences, FiniteSets, TLC

\* ----------------------------------------------------------------- bounds
\* Largest matrix dimension n (A.shape[0]) drawn for a call.
MaxN == 3
\* Largest number of devices in the inventory.
MaxGpus == 2

\* ------------------------------------------------------ program constants
\* 300 * 2**20: memory reserved on each device (line 188).
ReservedMargin == 300 * (2 ^ 20)
\* 100 * 8: needed_ram of a matrix already on the device (line 140).
CudaNeededRam == 100 * 8

\* ------------------------------------------------------------ input sets
\* Raw free memory of a device: below the margin, exactly the margin, above.
FreeSet == {ReservedMargin - 400, ReservedMargin, ReservedMargin + 1000}
\* opt.max_gpu_mem; NoCap stands for the default, float('inf').
NoCap == 2 ^ 26
CapSet == {40, 80, NoCap}
\* opt.chol_par_blk_multiplier
MultSet == {1, 2}
\* sizeof_dtype of float32, float64
DtypeSizes == {4, 8}
\* A.device: HOST for a CPU matrix, else a CUDA device index.
HOST == 0 - 1

Min2(a, b) == IF a <= b THEN a ELSE b
Max2(a, b) == IF a >= b THEN a ELSE b

VARIABLES
    pc,               \* position in gpu_cholesky
    n, dts, f_contig, \* the matrix argument: A.shape[0], sizeof_dtype, is_f_contig
    A_device,         \* A.device.index, HOST when not A.is_cuda
    upper_arg, clean, overwrite, opt,   \* the other arguments
    num_gpus, free_memory,              \* get_device_info(opt), devices k >= 0
    A,                \* the local A: [buf, T]
    upper, transposed,
    actual_free_mem,  \* 20 * g.actual_free_mem per device
    device, ic,
    max_block_size, block_size, block_allocations,
    synced,           \* devices whose current stream was synchronized
    dispatched,       \* kernels invoked, in order
    tri,              \* content of the strict triangles of each buffer
    written,          \* buffers written after the copy was taken
    err, hint,        \* exception raised; whether the message has the force hint
    steps             \* stretches of the body executed so far

vars == << pc, n, dts, f_contig, A_device, upper_arg, clean, overwrite, opt,
           num_gpus, free_memory, A, upper, transposed, actual_free_mem,
           device, ic, max_block_size, block_size, block_allocations, synced,
           dispatched, tri, written, err, hint, steps >>

inputs == << n, dts, f_contig, A_device, upper_arg, clean, overwrite, opt,
             num_gpus, free_memory >>

Devices == 0 .. (num_gpus - 1)
is_cuda == A_device # HOST

NoBlocks == [start |-> << >>, end |-> << >>, size |-> << >>,
             device_id |-> << >>, id |-> << >>]

Init ==
    /\ pc = "start"
    /\ n \in 1 .. MaxN
    /\ dts \in DtypeSizes
    /\ f_contig \in BOOLEAN
    /\ upper_arg \in BOOLEAN
    /\ clean \in BOOLEAN
    /\ overwrite \in BOOLEAN
    /\ opt \in [chol_force_in_core : BOOLEAN, chol_force_ooc : BOOLEAN,
                max_gpu_mem : CapSet, chol_par_blk_multiplier : MultSet]
    /\ num_gpus \in 1 .. MaxGpus
    /\ free_memory \in [0 .. (num_gpus - 1) -> FreeSet]
    \* a CUDA matrix sits on some device index; index num_gpus is one the
    \* inventory does not list (the case of line 193)
    /\ A_device \in {HOST} \cup (0 .. num_gpus)
    /\ A = [buf |-> "orig", T |-> FALSE]
    /\ upper = upper_arg
    /\ transposed = FALSE
    /\ actual_free_mem = [g \in 0 .. (num_gpus - 1) |-> 0]
    /\ device = HOST
    /\ ic = FALSE
    /\ max_block_size = 0
    /\ block_size = 0
    /\ block_allocations = NoBlocks
    /\ synced = {}
    /\ dispatched = << >>
    /\ tri = [b \in {"orig", "copy"} |->
                 [t \in BOOLEAN |-> IF b = "orig" THEN "data" ELSE "none"]]
    /\ written = {}
    /\ err = "none"
    /\ hint = FALSE
    /\ steps = << >>

Raise(e, h) ==
    /\ pc' = "failed"
    /\ err' = e
    /\ hint' = h

Goto(p) ==
    /\ pc' = p
    /\ UNCHANGED << err, hint >>

\* ------------------------------------------------ lines 175-180: overwrite
\* Variant: the copy is skipped and the call works on the caller's buffer.
WorkingBufferInPlace(ow) == "orig"

\* The buffer the rest of the call works on.
WorkingBuffer(ow) == IF ow THEN "orig" ELSE "copy"

HandleOverwrite ==
    /\ pc = "start"
    /\ A' = [A EXCEPT !.buf = WorkingBuffer(overwrite)]
    /\ tri' = IF A'.buf = "copy" THEN [tri EXCEPT !["copy"] = tri["orig"]]
              ELSE tri
    /\ steps' = Append(steps, "start")
    /\ Goto("estimate_memory")
    /\ UNCHANGED << inputs, upper, transposed, actual_free_mem, device, ic,
                    max_block_size, block_size, block_allocations, synced,
                    dispatched, written >>

\* ------------------------------------------- lines 185-188: memory budget
\* 20 * min((free_memory - 300 * 2**20) * 0.95, opt.max_gpu_mem * 0.95)
ActualFreeMem(free, cap) == Min2((free - ReservedMargin) * 19, cap * 19)

EstimateMemory ==
    /\ pc = "estimate_memory"
    /\ actual_free_mem' =
           [g \in Devices |-> ActualFreeMem(free_memory[g], opt.max_gpu_mem)]
    /\ steps' = Append(steps, "estimate_memory")
    /\ Goto("select_strategy")
    /\ UNCHANGED << inputs, A, upper, transposed, device, ic, max_block_size,
                    block_size, block_allocations, synced, dispatched, tri,
                    written >>

\* ------------------------------------------------- lines 132-144: can_do_ic
NeededRam(cuda, n_, dts_) == IF cuda THEN CudaNeededRam ELSE n_ * n_ * dts_

\* avail_ram * 0.85 >= needed_ram, with avail20 = 20 * device.actual_free_mem
can_do_ic(cuda, n_, dts_, avail20) == avail20 * 17 >= NeededRam(cuda, n_, dts_) * 400

\* ------------------------------------- lines 190-200: device and strategy
\* line 192: the devices of the inventory whose Id is A.device.index
DevicesOf(idx) == {d \in Devices : d = idx}

\* line 197: max(gpu_info, key=actual_free_mem); Python's max keeps the first
\* of several maximal elements
MaxFreeDevice(afm) ==
    CHOOSE g \in Devices :
        /\ \A h \in Devices : afm[h] <= afm[g]
        /\ \A h \in Devices : h < g => afm[h] < afm[g]

\* Variant: chol_force_ooc is not consulted.
InCoreIgnoringForce(can, force_ooc) == can

\* line 198
InCore(can, force_ooc) == can /\ ~force_ooc

\* Variant: the forced in-core check never raises.
ForceInCoreIgnored(force_in_core, ic_) == FALSE

\* line 199
ForceInCoreFails(force_in_core, ic_) == force_in_core /\ ~ic_

SelectStrategy ==
    /\ pc = "select_strategy"
    /\ steps' = Append(steps, "select_strategy")
    /\ IF is_cuda /\ DevicesOf(A_device) = {}
       THEN /\ Raise("DeviceNotRecognized", FALSE)
            /\ UNCHANGED << device, ic >>
       ELSE /\ device' = IF is_cuda THEN CHOOSE d \in DevicesOf(A_device) : TRUE
                         ELSE MaxFreeDevice(actual_free_mem)
            /\ ic' = InCore(can_do_ic(is_cuda, n, dts, actual_free_mem[device']),
                            opt.chol_force_ooc)
            /\ IF ForceInCoreFails(opt.chol_force_in_core, ic')
               THEN Raise("ForceInCore", FALSE)
               ELSE Goto("normalize_layout")
    /\ UNCHANGED << inputs, A, upper, transposed, actual_free_mem,
                    max_block_size, block_size, block_allocations, synced,
                    dispatched, tri, written >>

\* ------------------------------------------ lines 202-207: layout handling
\* is_f_contig of the view A: the buffer is column-major and A is the buffer,
\* or the buffer is row-major and A is its transpose
is_f_contig(view) == (f_contig /\ ~view.T) \/ (~f_contig /\ view.T)

\* line 206
FlipUpper(u) == ~u

NormalizeLayout ==
    /\ pc = "normalize_layout"
    /\ steps' = Append(steps, "normalize_layout")
    /\ IF ~is_f_contig(A)
       THEN /\ A' = [A EXCEPT !.T = ~A.T]
            /\ upper' = FlipUpper(upper)
            /\ transposed' = TRUE
       ELSE UNCHANGED << A, upper, transposed >>
    /\ Goto("check_supported")
    /\ UNCHANGED << inputs, actual_free_mem, device, ic, max_block_size,
                    block_size, block_allocations, synced, dispatched, tri,
                    written >>

\* ------------------------------------ lines 208-221: what can be dispatched
\* Variant: the upper-triangle check never raises.
UpperAlwaysAllowed(u, ic_) == FALSE

\* lines 209-211
UpperNeedsInCore(u, ic_) == u /\ ~ic_

\* Variant: the CUDA-matrix check never raises.
OocOnCudaAllowed(ic_, cuda) == FALSE

\* line 217
OocOnCuda(ic_, cuda) == ~ic_ /\ cuda

CheckSupported ==
    /\ pc = "check_supported"
    /\ steps' = Append(steps, "check_supported")
    /\ IF UpperNeedsInCore(upper, ic)
       THEN Raise("LowerTriangleOnly", FALSE)
       ELSE IF OocOnCuda(ic, is_cuda)
            THEN Raise("OocOnCuda", opt.chol_force_ooc)
            ELSE IF ic THEN Goto("in_core") ELSE Goto("plan_blocks")
    /\ UNCHANGED << inputs, A, upper, transposed, actual_free_mem, device, ic,
                    max_block_size, block_size, block_allocations, synced,
                    dispatched, tri, written >>

\* ------------------------------------------- lines 21-77: _ic_cholesky
\* The triangle of the buffer that triangle u of the view A denotes.
BufTri(u, view) == IF view.T THEN ~u ELSE u

\* Variant: a kernel error is swallowed.
AfterKernelIgnoringError(ok) == "finalize"

\* What happens after a kernel call: it returns, or its error propagates.
AfterKernel(ok) == IF ok THEN "finalize" ELSE "failed"

InCoreCholesky ==
    /\ pc = "in_core"
    /\ steps' = Append(steps, "dispatch")
    /\ IF ~is_f_contig(A)
       THEN \* line 46, before anything is allocated or run
            /\ Raise("NotFContiguous", FALSE)
            /\ UNCHANGED << dispatched, tri, written >>
       ELSE \E ok \in BOOLEAN :
            \* cusolver_potrf runs on Agpu: A itself when A.is_cuda, else a
            \* staging copy that is copied back only after the kernel returned
            /\ dispatched' = Append(dispatched, "cusolver_potrf")
            /\ pc' = AfterKernel(ok)
            /\ err' = IF ok THEN err ELSE "KernelFailure"
            /\ hint' = hint
            /\ tri' = IF ok
                      THEN [tri EXCEPT ![A.buf][BufTri(upper, A)] = "factor"]
                      ELSE IF is_cuda
                           THEN [tri EXCEPT ![A.buf][BufTri(upper, A)] = "undef"]
                           ELSE tri
            /\ written' = IF ok \/ is_cuda THEN written \cup {A.buf} ELSE written
    /\ UNCHANGED << inputs, A, upper, transposed, actual_free_mem, device, ic,
                    max_block_size, block_size, block_allocations, synced >>

\* ---------------------------------- lines 80-107: _parallel_potrf_runner
RECURSIVE MinOver(_, _)
\* min([g.actual_free_mem for g in gpu_info]), times 20
MinOver(afm, S) ==
    IF Cardinality(S) = 1 THEN afm[CHOOSE g \in S : TRUE]
    ELSE LET g == CHOOSE x \in S : TRUE
         IN  Min2(afm[g], MinOver(afm, S \ {g}))

RECURSIVE ISqrtFrom(_, _)
ISqrtFrom(k, x) == IF (k + 1) * (k + 1) > x THEN k ELSE ISqrtFrom(k + 1, x)
\* floor(math.sqrt(x)) for x >= 0
ISqrt(x) == ISqrtFrom(0, x)

\* line 91: math.sqrt(4 * N**2 + 4 * avail_ram) raises ValueError when its
\* argument is negative; avail_ram = avail20 / (20 * dts)
SqrtDomainError(N, avail20, dts_) == N * N * 20 * dts_ + avail20 < 0

\* Variant: the division by 2 is forgotten.
MaxBlockSizeNotHalved(N, avail20, dts_) ==
    ISqrt(4 * N * N + 4 * (avail20 \div (20 * dts_))) - 2 * N

\* lines 90-92: int(floor((sqrt(4 * N**2 + 4 * avail_ram) - 2 * N) / 2))
MaxBlockSize(N, avail20, dts_) == ISqrt(N * N + (avail20 \div (20 * dts_))) - N

\* calc_block_sizes lives in ooc_utils; modelled from the specification: the
\* multiplier scales the maximum block size to the final block size and the
\* dimension is cut into blocks of that size, the last one possibly shorter.
FinalBlockSize(max_bs, mult) == Max2(1, max_bs \div mult)

calc_block_sizes(max_bs, num_devices, N, mult) ==
    LET bs == FinalBlockSize(max_bs, mult)
        k  == (N + bs - 1) \div bs
    IN  [i \in 1 .. k |-> IF i * bs <= N THEN bs ELSE N % bs]

\* Variant: the end offset is inclusive.
BlockEndInclusive(cur_n, bs) == cur_n + bs - 1

\* line 103
BlockEnd(cur_n, bs) == cur_n + bs
\* line 105
BlockDevice(i, ngpus) == i % ngpus

RECURSIVE AllocLoop(_, _, _, _, _)
\* lines 99-107, i counting from 1 where the source counts from 0
AllocLoop(block_sizes, i, cur_n, acc, ngpus) ==
    IF i > Len(block_sizes) THEN acc
    ELSE LET bs == block_sizes[i]
         IN  AllocLoop(block_sizes, i + 1, cur_n + bs,
                       [start     |-> Append(acc.start, cur_n),
                        end       |-> Append(acc.end, BlockEnd(cur_n, bs)),
                        size      |-> Append(acc.size, bs),
                        device_id |-> Append(acc.device_id, BlockDevice(i - 1, ngpus)),
                        id        |-> Append(acc.id, i - 1)],
                       ngpus)

PlanBlocks ==
    /\ pc = "plan_blocks"
    /\ steps' = Append(steps, "plan_blocks")
    /\ LET avail20 == MinOver(actual_free_mem, Devices)
       IN  IF SqrtDomainError(n, avail20, dts)
           THEN /\ Raise("MathDomainError", FALSE)
                /\ UNCHANGED << max_block_size, block_size, block_allocations >>
           ELSE /\ max_block_size' = MaxBlockSize(n, avail20, dts)
                /\ IF max_block_size' < 1
                   THEN /\ Raise("InfeasibleMemory", FALSE)
                        /\ UNCHANGED << block_size, block_allocations >>
                   ELSE /\ block_size' = FinalBlockSize(max_block_size',
                                             opt.chol_par_blk_multiplier)
                        /\ block_allocations' =
                               AllocLoop(calc_block_sizes(max_block_size', num_gpus, n,
                                             opt.chol_par_blk_multiplier),
                                         1, 0, NoBlocks, num_gpus)
                        /\ Goto("parallel")
    /\ UNCHANGED << inputs, A, upper, transposed, actual_free_mem, device, ic,
                    synced, dispatched, tri, written >>

\* --------------------------------- lines 109-120: _parallel_potrf_runner
ParallelPotrf ==
    /\ pc = "parallel"
    /\ steps' = Append(steps, "dispatch")
    /\ synced' = 0 .. (num_gpus - 1)
    /\ \E ok \in BOOLEAN :
        \* parallel_potrf factorizes the lower triangle of A in place
        /\ dispatched' = Append(dispatched, "parallel_potrf")
        /\ pc' = AfterKernel(ok)
        /\ err' = IF ok THEN err ELSE "KernelFailure"
        /\ hint' = hint
        /\ tri' = [tri EXCEPT ![A.buf][BufTri(FALSE, A)] =
                                  IF ok THEN "factor" ELSE "undef"]
        /\ written' = written \cup {A.buf}
    /\ UNCHANGED << inputs, A, upper, transposed, actual_free_mem, device, ic,
                    max_block_size, block_size, block_allocations >>

\* ------------------------------------------------- lines 233-240: finish
\* Variant: the factor's own side is zeroed.
ZeroSameSide(u) == u

\* line 235: the side handed to zero_triang
ZeroSide(u) == ~u

CleanOtherTriangle ==
    /\ pc = "finalize"
    /\ steps' = Append(steps, "finalize")
    /\ IF clean
       THEN /\ tri' = [tri EXCEPT ![A.buf][BufTri(ZeroSide(upper), A)] = "zero"]
            /\ written' = written \cup {A.buf}
       ELSE UNCHANGED << tri, written >>
    /\ Goto("untranspose")
    /\ UNCHANGED << inputs, A, upper, transposed, actual_free_mem, device, ic,
                    max_block_size, block_size, block_allocations, synced,
                    dispatched >>

\* lines 237-240
UndoTranspose(was_transposed, view) ==
    IF was_transposed THEN [view EXCEPT !.T = ~view.T] ELSE view

Return ==
    /\ pc = "untranspose"
    /\ steps' = Append(steps, "untranspose")
    /\ A' = UndoTranspose(transposed, A)
    /\ Goto("done")
    /\ UNCHANGED << inputs, upper, transposed, actual_free_mem, device, ic,
                    max_block_size, block_size, block_allocations, synced,
                    dispatched, tri, written >>

Next ==
    \/ HandleOverwrite
    \/ EstimateMemory
    \/ SelectStrategy
    \/ NormalizeLayout
    \/ CheckSupported
    \/ InCoreCholesky
    \/ PlanBlocks
    \/ ParallelPotrf
    \/ CleanOtherTriangle
    \/ Return

Spec == Init /\ [][Next]_vars

\* ======================================================== properties
InSeq(x, s) == \E i \in 1 .. Len(s) : s[i] = x
Ran(step) == InSeq(step, steps)
IsPrefix(s, t) == Len(s) <= Len(t) /\ \A i \in 1 .. Len(s) : s[i] = t[i]
Terminal == pc \in {"done", "failed"}

\* line 198 has been executed: a device was chosen and ic computed
Selected == Ran("select_strategy") /\ err # "DeviceNotRecognized"

\* the triangle flag after layout normalization is upper
UpperAfterNormalization == (upper_arg <=> f_contig)

\* 20 * dts * (the element count the planner works with): the smallest
\* actual_free_mem over the inventory
WeakestAvail20 ==
    LET g == CHOOSE x \in Devices : \A h \in Devices : actual_free_mem[x] <= actual_free_mem[h]
    IN  actual_free_mem[g]

\* some block size b >= 1 has b^2 + 2*n*b <= available elements
BlockSizeExists == (1 + 2 * n) * 20 * dts <= WeakestAvail20

CeilDiv(a, b) == (a + b - 1) \div b

\* ------------------------------------------------------------------ C1
\* C1: with chol_force_in_core set, parallel_potrf is never dispatched, and
\* whenever in-core was not selected (memory below the threshold, or
\* chol_force_ooc also set) the call has failed with the in-core
\* configuration error before any kernel ran.
C1_ForcedInCoreNeverFallsBack ==
    opt.chol_force_in_core =>
        /\ ~InSeq("parallel_potrf", dispatched)
        /\ (Selected /\ ~ic) =>
               (pc = "failed" /\ err = "ForceInCore" /\ dispatched = << >>)

\* a forced in-core call on a host matrix that does not fit, without
\* chol_force_ooc, has failed
C1_Witness ==
    /\ opt.chol_force_in_core /\ ~opt.chol_force_ooc /\ ~is_cuda
    /\ pc = "failed" /\ err = "ForceInCore"

\* ------------------------------------------------------------------ C2
\* C2 as stated: with out-of-core forced (and in-core not forced) and
\* upper=True requested, whatever the layout, no kernel is dispatched and the
\* call fails with the lower-triangle-only error.
C2_Original ==
    (opt.chol_force_ooc /\ ~opt.chol_force_in_core /\ upper_arg) =>
        /\ dispatched = << >>
        /\ pc # "done"
        /\ (pc = "failed" /\ Selected) => err = "LowerTriangleOnly"

\* C2 amended: with out-of-core forced (and in-core not forced), when the
\* triangle flag after layout normalization is upper (upper=True on a
\* column-major input, upper=False on a row-major input) no kernel is
\* dispatched and the call, once past the checks, has failed with the
\* lower-triangle-only error; parallel_potrf never runs with the flag upper.
C2_Amended ==
    /\ (opt.chol_force_ooc /\ ~opt.chol_force_in_core /\ UpperAfterNormalization) =>
           /\ dispatched = << >>
           /\ pc # "done"
           /\ Ran("check_supported") => (pc = "failed" /\ err = "LowerTriangleOnly")
    /\ InSeq("parallel_potrf", dispatched) => ~upper

\* forced out-of-core, row-major input, lower requested: refused
C2_Witness ==
    /\ opt.chol_force_ooc /\ ~opt.chol_force_in_core
    /\ ~f_contig /\ ~upper_arg
    /\ pc = "failed" /\ err = "LowerTriangleOnly"

\* ------------------------------------------------------------------ C3
\* C3: with overwrite=False the caller's buffer is never written: from the
\* first step on A names the copy, every write goes to the copy, and the
\* content of the original stays what it was.
C3_OriginalUntouched ==
    ~overwrite =>
        /\ "orig" \notin written
        /\ tri["orig"] = [t \in BOOLEAN |-> "data"]
        /\ pc # "start" => A.buf = "copy"

\* a finished call with overwrite=False that factorized, zeroed and
\* transposed back
C3_Witness ==
    /\ ~overwrite /\ clean /\ transposed /\ pc = "done"
    /\ "copy" \in written
    /\ tri["copy"][upper_arg] = "factor"

\* ------------------------------------------------------------------ C4
\* C4: once the strategy is chosen, in-core is selected iff
\* usable * 0.85 >= needed_ram on the chosen device and out-of-core is not
\* forced; the chosen device is the matrix's own device, or one of maximal
\* usable memory for a host matrix.  For a host matrix, one device and no
\* force flag: at or above the threshold only cusolver_potrf can be
\* dispatched; below it cusolver_potrf never is, the call ends done only
\* through parallel_potrf with a block size >= 1, the planner fails when no
\* block size >= 1 exists, and when one exists the call fails only for an
\* upper triangle flag or a kernel error.
C4_StrategySelection ==
    Selected =>
        LET needed == IF is_cuda THEN 800 ELSE n * n * dts
            fits   == actual_free_mem[device] * 17 >= needed * 400
        IN  /\ ic <=> (fits /\ ~opt.chol_force_ooc)
            /\ device \in Devices
            /\ is_cuda => device = A_device
            /\ ~is_cuda => \A h \in Devices : actual_free_mem[h] <= actual_free_mem[device]
            /\ (num_gpus = 1 /\ ~is_cuda /\ ~opt.chol_force_in_core /\ ~opt.chol_force_ooc) =>
                   IF fits
                   THEN /\ ~InSeq("parallel_potrf", dispatched)
                        /\ ~Ran("plan_blocks")
                        /\ pc = "done" => dispatched = << "cusolver_potrf" >>
                   ELSE /\ ~InSeq("cusolver_potrf", dispatched)
                        /\ pc = "done" =>
                               (dispatched = << "parallel_potrf" >> /\ max_block_size >= 1)
                        /\ (Ran("plan_blocks") /\ ~BlockSizeExists) => pc = "failed"
                        /\ (pc = "failed" /\ BlockSizeExists) =>
                               err \in {"LowerTriangleOnly", "KernelFailure"}

\* one device, host matrix, no force flag, memory below the in-core
\* threshold: the call finished through parallel_potrf
C4_Witness ==
    /\ num_gpus = 1 /\ ~is_cuda
    /\ ~opt.chol_force_in_core /\ ~opt.chol_force_ooc
    /\ ~ic /\ pc = "done" /\ dispatched = << "parallel_potrf" >>

\* ------------------------------------------------------------------ C5
\* C5 as stated: a computed maximum block size b >= 1 satisfies
\* b^2 * (2*ceil(n/b) + 1) <= A and b+1 violates it, A being the smallest
\* usable memory divided by the element size.
C5_Original ==
    (Ran("plan_blocks") /\ max_block_size >= 1) =>
        LET b == max_block_size
        IN  /\ b * b * (2 * CeilDiv(n, b) + 1) * 20 * dts <= WeakestAvail20
            /\ (b + 1) * (b + 1) * (2 * CeilDiv(n, b + 1) + 1) * 20 * dts > WeakestAvail20

\* C5 amended: a computed maximum block size b >= 1 is the largest integer
\* with b^2 * (2*(n/b) + 1) = b^2 + 2*n*b <= A (n/b the exact quotient, not
\* rounded up): b satisfies the inequality and b+1 violates it.
C5_Amended ==
    (Ran("plan_blocks") /\ max_block_size >= 1) =>
        LET b == max_block_size
        IN  /\ (b * b + 2 * n * b) * 20 * dts <= WeakestAvail20
            /\ ((b + 1) * (b + 1) + 2 * n * (b + 1)) * 20 * dts > WeakestAvail20

\* a block size that does not divide the dimension
C5_Witness ==
    /\ Ran("plan_blocks") /\ max_block_size = 2 /\ n = 3

C7_InfeasibleReported ==
    (Ran("plan_blocks") /\ ~BlockSizeExists) =>
        /\ pc = "failed" /\ err = "InfeasibleMemory"
        /\ block_allocations = NoBlocks
        /\ synced = {}
        /\ dispatched = << >>

\* ------------------------------------------------------------------ C8
\* C8 as stated: for a device-resident matrix with in-core not selected (and
\* not forced), no kernel is dispatched, the call fails, and when out-of-core
\* was forced the error message carries the hint about the force flag.
C8_Original ==
    (is_cuda /\ Selected /\ ~ic /\ ~opt.chol_force_in_core) =>
        /\ dispatched = << >>
        /\ pc # "done"
        /\ (pc = "failed" /\ opt.chol_force_ooc) => hint

\* C8 amended: parallel_potrf is never dispatched on a device-resident
\* matrix; the device considered for in-core is the one the matrix resides
\* on; with in-core not selected no kernel is dispatched and the call fails
\* with the forced-in-core error, the lower-triangle-only error or the
\* CUDA-matrix error; the hint about the force flag is in the message exactly
\* when the CUDA-matrix error is the one raised (in-core not forced, triangle
\* flag lower after normalization) and out-of-core was forced.
C8_Amended ==
    /\ is_cuda =>
           /\ ~InSeq("parallel_potrf", dispatched)
           /\ ~Ran("plan_blocks")
           /\ Selected => device = A_device
           /\ (Selected /\ ~ic) =>
                  /\ dispatched = << >>
                  /\ pc # "done"
                  /\ pc = "failed" =>
                         err \in {"ForceInCore", "LowerTriangleOnly", "OocOnCuda"}
                  /\ Ran("check_supported") => pc = "failed"
    /\ err = "OocOnCuda" =>
           /\ is_cuda /\ ~ic /\ ~upper /\ ~opt.chol_force_in_core
           /\ hint <=> opt.chol_force_ooc
    /\ err # "OocOnCuda" => ~hint

\* the CUDA-matrix error with the hint, on a device with less memory than
\* another one
C8_Witness ==
    /\ err = "OocOnCuda" /\ hint /\ pc = "failed"
    /\ \E h \in Devices : actual_free_mem[h] > actual_free_mem[device]

\* ------------------------------------------------------------------ C9
\* C9: the zeroing runs after the kernel and before the transpose is undone,
\* on the complement of the triangle flag as it is after normalization; a
\* finished call with clean=True returns, in the caller's orientation, the
\* factor in the requested triangle and zeros in the opposite one; the
\* returned matrix is transposed back exactly when it was transposed.
C9_CleanOppositeTriangle ==
    /\ (pc = "untranspose" /\ clean) =>
           /\ A.T = transposed
           /\ tri[A.buf][BufTri(~upper, A)] = "zero"
           /\ tri[A.buf][BufTri(upper, A)] = "factor"
    /\ Ran("finalize") => (dispatched # << >> /\ pc \in {"untranspose", "done"})
    /\ transposed <=> (Ran("normalize_layout") /\ ~f_contig)
    /\ upper = (IF transposed THEN ~upper_arg ELSE upper_arg)
    /\ pc = "done" =>
           /\ ~A.T
           /\ tri[A.buf][upper_arg] = "factor"
           /\ clean => tri[A.buf][~upper_arg] = "zero"
           /\ ~clean => tri[A.buf][~upper_arg] = "data"

\* a row-major input, upper requested, cleaned and returned
C9_Witness ==
    /\ pc = "done" /\ clean /\ transposed /\ upper_arg
    /\ tri[A.buf][FALSE] = "zero"

\* ----------------------------------------------------------------- C10
\* The order the claim gives, with check_supported counted as part of
\* select_strategy and untranspose as part of finalize.
StagesInCore == << "start", "estimate_memory", "select_strategy", "normalize_layout",
                   "check_supported", "dispatch", "finalize", "untranspose" >>
StagesOutOfCore == << "start", "estimate_memory", "select_strategy", "normalize_layout",
                      "check_supported", "plan_blocks", "dispatch", "finalize",
                      "untranspose" >>

FailureIsTerminal ==
    /\ (err # "none") <=> (pc = "failed")
    /\ Terminal => ~ENABLED Next
    /\ Len(dispatched) <= 1
    /\ pc = "failed" =>
           /\ ~Ran("finalize") /\ ~Ran("untranspose")
           /\ dispatched # << >> => err = "KernelFailure"
    /\ Ran("plan_blocks") => ~ic
    /\ pc = "done" =>
           /\ Len(dispatched) = 1
           /\ dispatched[1] = (IF ic THEN "cusolver_potrf" ELSE "parallel_potrf")
           /\ steps = (IF ic THEN StagesInCore ELSE StagesOutOfCore)

\* C10 as stated: the layout is normalized before memory is estimated and
\* the strategy selected; failures are terminal; a finished call dispatched
\* exactly one kernel once.
C10_Original ==
    /\ \A i \in 1 .. Len(steps) :
           steps[i] \in {"estimate_memory", "select_strategy"} =>
               \E j \in 1 .. (i - 1) : steps[j] = "normalize_layout"
    /\ FailureIsTerminal

\* C10 amended: every call follows start -> estimate_memory ->
\* select_strategy (device, in-core feasibility, forced in-core check) ->
\* normalize_layout -> triangle and residency checks -> (plan_blocks,
\* out-of-core only) -> dispatch -> finalize -> done; every failure is
\* terminal: after it no kernel is dispatched, no finalization runs and the
\* other strategy is not tried; a finished call dispatched exactly one of the
\* two kernels exactly once.
C10_Amended ==
    /\ (IsPrefix(steps, StagesInCore) \/ IsPrefix(steps, StagesOutOfCore))
    /\ FailureIsTerminal

\* a kernel error after the out-of-core dispatch ended the call
C10_Witness ==
    /\ pc = "failed" /\ err = "KernelFailure"
    /\ dispatched = << "parallel_potrf" >>
====
